---- MODULE Spec2Model ----
(***************************************************************************)
(* Model of serve.py: a development static file server.                    *)
(*                                                                         *)
(* serve.py subclasses http.server.SimpleHTTPRequestHandler, overriding    *)
(* end_headers (three CORS headers) and guess_type (a .js special case),   *)
(* and runs it under socketserver.TCPServer.serve_forever.  The inherited  *)
(* behaviour the overrides call into (super().end_headers,                 *)
(* super().guess_type, send_head, send_error, parse_request, the           *)
(* accept-serve loop) is modelled as the CPython 3.11 library executes it, *)
(* at the line of serve.py that inherits or calls it.                      *)
(*                                                                         *)
(* Text is modelled as TLA+ strings; Len, SubSeq and \o act on them as on  *)
(* Python str.  A line of the header block stands for its text followed by *)
(* CRLF; the blank line ending the block is the empty line "".             *)
(***************************************************************************)
EXTENDS Integers, Sequences, FiniteSets, TLC

VARIABLES
    pc,          \* position of the main thread in the script
    exitStatus,  \* <<>> while the process lives, <<status>> once it has exited
    stdout,      \* lines printed by print()
    stderr,      \* tracebacks written to standard error
    bindCalls,   \* number of times the listening socket was bound
    bindFailed,  \* the bind of ("", PORT) raised OSError
    types_map,   \* the platform's extension-to-type table (mimetypes)
    backlog,     \* connections completed by the kernel, not yet accepted
    nextId,      \* arrival number of the next client connection
    active,      \* connections accepted and not yet shut down
    accepted,    \* arrival numbers in the order get_request returned them
    closed,      \* outcome of every connection already shut down
    interrupted, \* an interactive interrupt (SIGINT) was delivered
    interruptedAt \* where the main thread was when it was delivered

vars == <<pc, exitStatus, stdout, stderr, bindCalls, bindFailed, types_map,
          backlog, nextId, active, accepted, closed, interrupted, interruptedAt>>

---------------------------------------------------------------------------
(* Bounds of the model *)

\* Client connections that arrive during one run of the server.
MaxConns == 3
\* Requests a client writes on one connection before it stops sending.
MaxReqs == 2

---------------------------------------------------------------------------
(* Program constants *)

PORT == 8000

---------------------------------------------------------------------------
(* str helpers *)

StartsWith(s, pre) == Len(s) >= Len(pre) /\ SubSeq(s, 1, Len(pre)) = pre

EndsWith(s, suf) ==
    Len(s) >= Len(suf) /\ SubSeq(s, Len(s) - Len(suf) + 1, Len(s)) = suf

\* s.rfind(ch): the last index of the character ch in s, 0 when absent.
RECURSIVE RFindFrom(_, _, _)
RFindFrom(s, ch, i) ==
    IF i = 0 THEN 0
    ELSE IF SubSeq(s, i, i) = ch THEN i
    ELSE RFindFrom(s, ch, i - 1)

RFind(s, ch) == RFindFrom(s, ch, Len(s))

\* s.find(ch): the first index of ch in s, 0 when absent.
RECURSIVE FindFrom(_, _, _)
FindFrom(s, ch, i) ==
    IF i > Len(s) THEN 0
    ELSE IF SubSeq(s, i, i) = ch THEN i
    ELSE FindFrom(s, ch, i + 1)

\* s.split(ch, 1)[0]
Before(s, ch) ==
    LET k == FindFrom(s, ch, 1) IN IF k = 0 THEN s ELSE SubSeq(s, 1, k - 1)

\* s.split(sep), sep one character
RECURSIVE SplitAt(_, _, _, _)
SplitAt(s, sep, i, cur) ==
    IF i > Len(s) THEN <<cur>>
    ELSE IF SubSeq(s, i, i) = sep THEN <<cur>> \o SplitAt(s, sep, i + 1, "")
    ELSE SplitAt(s, sep, i + 1, cur \o SubSeq(s, i, i))

SplitSlash(s) == SplitAt(s, "/", 1, "")

\* str.isdigit() and int() on a decimal string
DigitVal(c) ==
    CASE c = "0" -> 0 [] c = "1" -> 1 [] c = "2" -> 2 [] c = "3" -> 3
      [] c = "4" -> 4 [] c = "5" -> 5 [] c = "6" -> 6 [] c = "7" -> 7
      [] c = "8" -> 8 [] c = "9" -> 9 [] OTHER -> -1

IsDigit(s) ==
    Len(s) > 0 /\ \A i \in 1..Len(s) : DigitVal(SubSeq(s, i, i)) >= 0

RECURSIVE ToInt(_)
ToInt(s) ==
    IF Len(s) = 0 THEN 0
    ELSE 10 * ToInt(SubSeq(s, 1, Len(s) - 1)) + DigitVal(SubSeq(s, Len(s), Len(s)))

\* '/'.join(words)
RECURSIVE JoinSlash(_)
JoinSlash(words) ==
    IF words = <<>> THEN ""
    ELSE IF Len(words) = 1 THEN words[1]
    ELSE words[1] \o "/" \o JoinSlash(Tail(words))

---------------------------------------------------------------------------
(* The served tree (the project root made the working directory) *)

\* os.getcwd() after os.chdir(project_root)
Directory == "/srv"

\* Regular files under the root, with their bytes.
FileNames == {"/srv/a.txt", "/srv/app.js", "/srv/d1/index.html", "/srv/d2/f"}

FileBytes(p) ==
    CASE p = "/srv/a.txt" -> "abc"
      [] p = "/srv/app.js" -> "x=1"
      [] p = "/srv/d1/index.html" -> "<h1>hi</h1>"
      [] OTHER -> ""

\* Directories under the root; d1 holds an index.html, d2 does not, d3 cannot
\* be listed.
DirNames == {"/srv", "/srv/d1", "/srv/d2", "/srv/d3"}
Unlistable == {"/srv/d3"}

\* A trailing slash is ignored by stat() on a directory and makes a regular
\* file ENOTDIR.
NoSlash(p) == IF Len(p) > 1 /\ EndsWith(p, "/") THEN SubSeq(p, 1, Len(p) - 1) ELSE p

IsDir(p) == NoSlash(p) \in DirNames
IsFile(p) == p \in FileNames
\* open(path, 'rb') succeeds
CanOpen(p) == p \in FileNames

---------------------------------------------------------------------------
(* Path handling inherited from SimpleHTTPRequestHandler *)

\* posixpath.normpath of an absolute path: empty and "." components are
\* dropped, ".." removes the component before it and is dropped at the root.
RECURSIVE NormComps(_, _)
NormComps(comps, acc) ==
    IF comps = <<>> THEN acc
    ELSE LET c == Head(comps) IN
         IF c = "" \/ c = "." THEN NormComps(Tail(comps), acc)
         ELSE IF c = ".." THEN
             NormComps(Tail(comps),
                       IF acc = <<>> THEN acc ELSE SubSeq(acc, 1, Len(acc) - 1))
         ELSE NormComps(Tail(comps), Append(acc, c))

Normpath(p) == "/" \o JoinSlash(NormComps(SplitSlash(p), <<>>))

\* The words of the normalised path that name a plain file or directory.
RECURSIVE SimpleWords(_)
SimpleWords(words) ==
    IF words = <<>> THEN <<>>
    ELSE IF Head(words) \in {"", ".", ".."} THEN SimpleWords(Tail(words))
    ELSE <<Head(words)>> \o SimpleWords(Tail(words))

RECURSIVE JoinUnder(_, _)
JoinUnder(dir, words) ==
    IF words = <<>> THEN dir
    ELSE JoinUnder(dir \o "/" \o Head(words), Tail(words))

\* translate_path: the query and fragment are abandoned, the path is
\* normalised and re-rooted at the working directory, and an explicit
\* trailing slash is kept.  (The request targets of this model hold no
\* %-escape, on which unquote acts.)
translate_path(target) ==
    LET p == Before(Before(target, "?"), "#")
        trailing_slash == EndsWith(p, "/")
        local == JoinUnder(Directory, SimpleWords(SplitSlash(Normpath(p))))
    IN  IF trailing_slash THEN local \o "/" ELSE local

\* whether name[from..upto-1] holds a character other than "."
RECURSIVE HasNonDot(_, _, _)
HasNonDot(p, from, upto) ==
    IF from >= upto THEN FALSE
    ELSE IF SubSeq(p, from, from) # "." THEN TRUE
    ELSE HasNonDot(p, from + 1, upto)

\* posixpath.splitext(path)[1]: the extension of the last component, leading
\* dots of the component not counted.
splitext(p) ==
    LET sepIndex == RFind(p, "/")
        dotIndex == RFind(p, ".")
    IN  IF dotIndex > sepIndex /\ HasNonDot(p, sepIndex + 1, dotIndex)
        THEN SubSeq(p, dotIndex, Len(p))
        ELSE ""

---------------------------------------------------------------------------
(* Content-type resolution *)

\* Extensions the platform table is consulted for.
Exts == {".js", ".txt", ".html"}

\* What the platform's table may hold: "" stands for no entry (None).  The
\* entry for .js differs between platforms and library versions.
TypesMaps ==
    { [e \in Exts |-> CASE e = ".js" -> js
                        [] e = ".txt" -> "text/plain"
                        [] e = ".html" -> "text/html"]
      : js \in {"application/javascript", "text/javascript", "application/x-javascript", ""} }

\* SimpleHTTPRequestHandler.extensions_map
extensions_map(ext) ==
    CASE ext = ".gz" -> "application/gzip"
      [] ext = ".Z" -> "application/octet-stream"
      [] ext = ".bz2" -> "application/x-bzip2"
      [] ext = ".xz" -> "application/x-xz"
      [] OTHER -> ""

\* super().guess_type(path): the inherited method returns ONE value, a str of
\* the form type/subtype.  (The extensions of this model are lower case, so
\* the retry with ext.lower() finds nothing new.)
BaseGuessType(path, table) ==
    LET ext == splitext(path)
        guess == IF ext \in DOMAIN table THEN table[ext] ELSE ""
    IN  IF extensions_map(ext) # "" THEN extensions_map(ext)
        ELSE IF guess # "" THEN guess
        ELSE "application/octet-stream"

\* `mimetype, encoding = <value>`: unpacking a str iterates its characters,
\* and raises ValueError unless there are exactly two of them.
Unpack2(value) ==
    IF Len(value) = 2
    THEN [raised |-> "", mimetype |-> SubSeq(value, 1, 1), encoding |-> SubSeq(value, 2, 2)]
    ELSE [raised |-> "ValueError", mimetype |-> "", encoding |-> ""]

\* A returned content type: a str, or a (mimetype, encoding) tuple.
StrValue(s) == [raised |-> "", kind |-> "str", str |-> s, pair |-> <<>>]
TupleValue(a, b) == [raised |-> "", kind |-> "tuple", str |-> "", pair |-> <<a, b>>]
Raise(exc) == [raised |-> exc, kind |-> "none", str |-> "", pair |-> <<>>]

\* CustomHTTPRequestHandler.guess_type
guess_type(path, table) ==
    LET u == Unpack2(BaseGuessType(path, table))
    IN  IF u.raised # "" THEN Raise(u.raised)
        ELSE IF EndsWith(path, ".js") THEN StrValue("application/javascript")
        ELSE TupleValue(u.mimetype, u.encoding)

\* "%s" % value, as send_header formats a header's value
Fmt(v) ==
    IF v.kind = "str" THEN v.str
    ELSE "('" \o v.pair[1] \o "', '" \o v.pair[2] \o "')"

---------------------------------------------------------------------------
(* The request handler: BaseHTTPRequestHandler state and response writing *)

\* The version a request is taken to have until its request line says more.
default_request_version == "HTTP/0.9"
\* The protocol version the handler class speaks (never changed by serve.py).
protocol_version == "HTTP/1.0"

\* A handler at the start of a connection.  codes are the status codes
\* send_response logged, guessed the calls of guess_type with what each gave.
NewHandler ==
    [request_version |-> default_request_version,
     command |-> "",
     path |-> "",
     close_connection |-> TRUE,
     headers_buffer |-> <<>>,
     wfile |-> <<>>,
     codes |-> <<>>,
     guessed |-> <<>>,
     raised |-> ""]

\* One write on the socket: a flushed header block, or body bytes.
HeadWrite(lines) == [hdr |-> TRUE, lines |-> lines, data |-> ""]
BodyWrite(data) == [hdr |-> FALSE, lines |-> <<>>, data |-> data]

\* BaseHTTPRequestHandler.responses[code][0]
Phrase(code) ==
    CASE code = 200 -> "OK"
      [] code = 301 -> "Moved Permanently"
      [] code = 304 -> "Not Modified"
      [] code = 400 -> "Bad Request"
      [] code = 404 -> "Not Found"
      [] code = 414 -> "Request-URI Too Long"
      [] code = 501 -> "Not Implemented"
      [] code = 505 -> "HTTP Version Not Supported"
      [] OTHER -> ""

\* The one element of a singleton set.  A method body is written
\*     The({ body(h) : h \in {self} })
\* so that h names the one handler object the method was called on, however
\* often the body refers to it.
The(S) == CHOOSE x \in S : TRUE

send_response_only(self, code, message) ==
    The({ IF h.request_version # "HTTP/0.9"
          THEN [h EXCEPT !.headers_buffer =
                    Append(@, protocol_version \o " " \o ToString(code) \o " " \o message)]
          ELSE h
          : h \in {self} })

send_header(self, keyword, value) ==
    The({ LET h1 == IF h.request_version # "HTTP/0.9"
                    THEN [h EXCEPT !.headers_buffer = Append(@, keyword \o ": " \o value)]
                    ELSE h
          IN  IF keyword = "Connection" /\ value = "close"
              THEN [h1 EXCEPT !.close_connection = TRUE]
              ELSE IF keyword = "Connection" /\ value = "keep-alive"
              THEN [h1 EXCEPT !.close_connection = FALSE]
              ELSE h1
          : h \in {self} })

\* send_response: logs the code, then the status line, Server and Date.
send_response(h, code, message) ==
    LET h1 == [h EXCEPT !.codes = Append(@, code)]
        h2 == send_response_only(h1, code, message)
        h3 == send_header(h2, "Server", "SimpleHTTP/0.6 Python/3.11")
    IN  send_header(h3, "Date", "<now>")

flush_headers(self) ==
    The({ [h EXCEPT !.wfile = Append(@, HeadWrite(h.headers_buffer)),
                    !.headers_buffer = <<>>]
          : h \in {self} })

\* super().end_headers(): the blank line and the flush, nothing at all for a
\* request taken as HTTP/0.9.
BaseEndHeaders(self) ==
    The({ IF h.request_version # "HTTP/0.9"
          THEN flush_headers([h EXCEPT !.headers_buffer = Append(@, "")])
          ELSE h
          : h \in {self} })

\* Faulty variant of end_headers: the third CORS header is forgotten.
end_headers_OneMissing(h) ==
    LET h1 == send_header(h, "Access-Control-Allow-Origin", "*")
        h2 == send_header(h1, "Access-Control-Allow-Methods", "GET, POST, OPTIONS")
    IN  BaseEndHeaders(h2)

\* CustomHTTPRequestHandler.end_headers
end_headers(h) ==
    LET h1 == send_header(h, "Access-Control-Allow-Origin", "*")
        h2 == send_header(h1, "Access-Control-Allow-Methods", "GET, POST, OPTIONS")
        h3 == send_header(h2, "Access-Control-Allow-Headers", "Content-Type")
    IN  BaseEndHeaders(h3)

\* The HTML page send_error builds from error_message_format.
ErrorBody(code, message) ==
    "<h1>Error response</h1><p>Error code: " \o ToString(code)
        \o "</p><p>Message: " \o message \o ".</p>"

send_error(self, code, message) ==
    The({ LET h1 == send_response(h, code, message)
              h2 == send_header(h1, "Connection", "close")
              hasBody == code >= 200 /\ code \notin {204, 205, 304}
              body == ErrorBody(code, message)
              h3 == IF hasBody
                    THEN send_header(
                             send_header(h2, "Content-Type", "text/html;charset=utf-8"),
                             "Content-Length", ToString(Len(body)))
                    ELSE h2
              h4 == end_headers(h3)
          IN  IF h.command # "HEAD" /\ hasBody
              THEN [h4 EXCEPT !.wfile = Append(@, BodyWrite(body))]
              ELSE h4
          : h \in {self} })

---------------------------------------------------------------------------
(* The request handler: parsing and the GET/HEAD methods *)

\* The version of a request line's last word: ok is FALSE where the library
\* raises ValueError (no "HTTP/" prefix, not exactly major.minor, a
\* component that is not a short decimal number).
ParseVersion(version) ==
    LET base == SubSeq(version, 6, Len(version))
        nums == SplitAt(base, ".", 1, "")
        good == /\ StartsWith(version, "HTTP/")
                /\ Len(nums) = 2
                /\ \A i \in 1..2 : IsDigit(nums[i]) /\ Len(nums[i]) <= 10
    IN  IF good
        THEN [ok |-> TRUE, major |-> ToInt(nums[1]), minor |-> ToInt(nums[2]), base |-> base]
        ELSE [ok |-> FALSE, major |-> 0, minor |-> 0, base |-> base]

\* BaseHTTPRequestHandler.parse_request on the words of the request line.
\* The Connection header is honoured only by a handler whose protocol_version
\* is HTTP/1.1, which this one is not: close_connection stays TRUE.  (The
\* request targets of this model do not start with "//".)
parse_request(h0, req) ==
    LET words == req.words
        n == Len(words)
        h == [h0 EXCEPT !.command = "",
                        !.request_version = default_request_version,
                        !.close_connection = TRUE]
        v == ParseVersion(words[n])
        persistent == protocol_version = "HTTP/1.1"
        hv == IF n >= 3
              THEN [h EXCEPT !.request_version = words[n],
                             !.close_connection =
                                 ~(persistent /\ (v.major > 1 \/ (v.major = 1 /\ v.minor >= 1)))]
              ELSE h
        hk == IF req.keep_alive /\ persistent
              THEN [hv EXCEPT !.close_connection = FALSE]
              ELSE hv
    IN  IF n = 0 THEN [ok |-> FALSE, h |-> h]
        ELSE IF n >= 3 /\ ~v.ok
        THEN [ok |-> FALSE,
              h |-> send_error(h, 400, "Bad request version ('" \o words[n] \o "')")]
        ELSE IF n >= 3 /\ v.major >= 2
        THEN [ok |-> FALSE,
              h |-> send_error(h, 505, "Invalid HTTP version (" \o v.base \o ")")]
        ELSE IF ~(2 <= n /\ n <= 3)
        THEN [ok |-> FALSE, h |-> send_error(hv, 400, "Bad request syntax")]
        ELSE IF n = 2 /\ words[1] # "GET"
        THEN [ok |-> FALSE,
              h |-> send_error(hv, 400, "Bad HTTP/0.9 request type ('" \o words[1] \o "')")]
        ELSE [ok |-> TRUE, h |-> [hk EXCEPT !.command = words[1], !.path = words[2]]]

\* What send_head returns beside the handler: an open file (or BytesIO), or
\* None.
NoFile(h) == [h |-> h, open |-> FALSE, data |-> ""]
OpenFile(h, data) == [h |-> h, open |-> TRUE, data |-> data]

\* SimpleHTTPRequestHandler.list_directory
list_directory(self, path) ==
    The({ IF NoSlash(path) \in Unlistable
          THEN NoFile(send_error(h, 404, "No permission to list directory"))
          ELSE LET encoded == "<title>Directory listing for " \o h.path \o "</title>"
                   h1 == send_response(h, 200, Phrase(200))
                   h2 == send_header(h1, "Content-type", "text/html; charset=utf-8")
                   h3 == send_header(h2, "Content-Length", ToString(Len(encoded)))
               IN  OpenFile(end_headers(h3), encoded)
          : h \in {self} })

\* SimpleHTTPRequestHandler.send_head, which calls self.guess_type(path)
\* before it looks whether the path can be opened.
send_head(self, req, table) ==
    The({
      LET urlpath == Before(Before(h.path, "#"), "?")
          isdir == IsDir(path0)
          slash == IF EndsWith(path0, "/") THEN "" ELSE "/"
          index1 == path0 \o slash \o "index.html"
          index2 == path0 \o slash \o "index.htm"
          path == IF isdir /\ IsFile(index1) THEN index1
                  ELSE IF isdir /\ IsFile(index2) THEN index2
                  ELSE path0
          ctype == guess_type(path, table)
          hg == [h EXCEPT !.guessed = Append(@, [path |-> path, value |-> ctype])]
      IN  IF isdir /\ ~EndsWith(urlpath, "/")
          THEN LET h1 == send_response(h, 301, Phrase(301))
                   h2 == send_header(h1, "Location", urlpath \o "/")
                   h3 == send_header(h2, "Content-Length", "0")
               IN  NoFile(end_headers(h3))
          ELSE IF isdir /\ path = path0
          THEN list_directory(h, path0)
          ELSE IF ctype.raised # ""
          THEN NoFile([hg EXCEPT !.raised = ctype.raised])
          ELSE IF EndsWith(path, "/")
          THEN NoFile(send_error(hg, 404, "File not found"))
          ELSE IF ~CanOpen(path)
          THEN NoFile(send_error(hg, 404, "File not found"))
          ELSE IF req.not_modified
          THEN NoFile(end_headers(send_response(hg, 304, Phrase(304))))
          ELSE LET h1 == send_response(hg, 200, Phrase(200))
                   h2 == send_header(h1, "Content-type", Fmt(ctype))
                   h3 == send_header(h2, "Content-Length", ToString(Len(FileBytes(path))))
                   h4 == send_header(h3, "Last-Modified", "<mtime>")
               IN  OpenFile(end_headers(h4), FileBytes(path))
      : h \in {self}, path0 \in {translate_path(self.path)} })

\* do_GET: send_head, then copyfile of what it returned
do_GET(h, req, table) ==
    The({ IF r.open /\ r.h.raised = ""
          THEN [r.h EXCEPT !.wfile = Append(@, BodyWrite(r.data))]
          ELSE r.h
          : r \in {send_head(h, req, table)} })

\* do_HEAD: send_head only
do_HEAD(h, req, table) == send_head(h, req, table).h

\* BaseHTTPRequestHandler.handle_one_request, for a request line that was
\* read (req.toolong: it exceeds 65536 bytes).
handle_one_request(h, req, table) ==
    IF req.toolong
    THEN send_error([h EXCEPT !.request_version = "", !.command = ""], 414, Phrase(414))
    ELSE The({ IF ~p.ok THEN p.h
               ELSE IF p.h.command = "GET" THEN do_GET(p.h, req, table)
               ELSE IF p.h.command = "HEAD" THEN do_HEAD(p.h, req, table)
               ELSE send_error(p.h, 501, "Unsupported method ('" \o p.h.command \o "')")
               : p \in {parse_request(h, req)} })

---------------------------------------------------------------------------
(* Requests the clients send *)

Targets ==
    {"/a.txt", "/app.js", "/d1/", "/d1", "/d2/", "/d3/", "/",
     "/nope", "/nope.js", "/../a.txt", "/a.txt/", "/app.js?v=1"}

Req(words) == [words |-> words, toolong |-> FALSE, keep_alive |-> FALSE, not_modified |-> FALSE]

Requests ==
    {Req(<<"GET", t, "HTTP/1.1">>) : t \in Targets}
    \cup {Req(<<"HEAD", t, "HTTP/1.0">>) : t \in Targets}
    \cup {Req(<<"GET", t>>) : t \in Targets}
    \cup {Req(<<m, "/a.txt", "HTTP/1.1">>) : m \in {"POST", "OPTIONS"}}
    \cup {Req(<<"POST", "/a.txt">>), Req(<<"GARBAGE">>), Req(<<>>),
          Req(<<"GET", "/a.txt", "HTTP/9.x">>), Req(<<"GET", "/a.txt", "HTTP/2.0">>),
          Req(<<"GET", "/a", "b", "HTTP/1.0">>)}
    \cup {[Req(<<"GET", "/", "HTTP/1.1">>) EXCEPT !.toolong = TRUE]}
    \cup {[Req(<<"GET", t, "HTTP/1.1">>) EXCEPT !.keep_alive = TRUE] : t \in {"/a.txt", "/d2/"}}
    \cup {[Req(<<"GET", "/a.txt", "HTTP/1.1">>) EXCEPT !.not_modified = TRUE]}

---------------------------------------------------------------------------
(* The script: lines 36-47, and the library loop it runs *)

\* The main thread is inside httpd.serve_forever().
InLoop(p) == p \in {"serving", "handling"}

\* The listening socket exists: from the TCPServer constructor to exit.
Listening == pc \in {"announce", "serving", "handling", "caught"}

\* Faulty variant of AfterBindError: the error is swallowed and the script
\* goes on.
AfterBindErrorSwallowed == [pc |-> "announce", exitStatus |-> <<>>]

\* An OSError out of the TCPServer constructor is caught nowhere: traceback,
\* exit status 1.
AfterBindError == [pc |-> "exited", exitStatus |-> <<1>>]

\* Faulty variant of AcceptReady: a server that hands each connection to a
\* thread and accepts again at once.
AcceptReadyThreaded == pc \in {"serving", "handling"}

\* socketserver.TCPServer serves in the thread that accepted: serve_forever
\* calls get_request only between two requests.
AcceptReady == pc = "serving"

\* Faulty variant of AfterRequest: an exception out of the handler leaves
\* serve_forever and ends the process.
AfterRequestPropagates(raised) ==
    IF raised # "" THEN [pc |-> "exited", exitStatus |-> <<1>>]
    ELSE [pc |-> "serving", exitStatus |-> <<>>]

\* _handle_request_noblock: an Exception out of the handler is reported by
\* handle_error and the loop goes on.
AfterRequest(raised) == [pc |-> "serving", exitStatus |-> <<>>]

\* except KeyboardInterrupt: print the notice, sys.exit(0)
AfterInterrupt == [stdout |-> Append(stdout, "\nServer stopped"), exitStatus |-> <<0>>]

\* Faulty variant of InterruptLands: no except clause catches the interrupt.
InterruptLandsUncaught(p) == [pc |-> "exited", exitStatus |-> <<130>>]

\* Where a KeyboardInterrupt raised at position p lands: caught by the
\* except clause when raised inside the try, uncaught before it.
InterruptLands(p) ==
    IF InLoop(p) THEN [pc |-> "caught", exitStatus |-> <<>>]
    ELSE [pc |-> "exited", exitStatus |-> <<130>>]

Init ==
    /\ pc = "start"
    /\ exitStatus = <<>>
    /\ stdout = <<>>
    /\ stderr = <<>>
    /\ bindCalls = 0
    /\ bindFailed = FALSE
    /\ types_map \in TypesMaps
    /\ backlog = <<>>
    /\ nextId = 1
    /\ active = {}
    /\ accepted = <<>>
    /\ closed = <<>>
    /\ interrupted = FALSE
    /\ interruptedAt = ""

\* line 37: socketserver.TCPServer(("", PORT), ...) binds and listens
Bind ==
    /\ pc = "start"
    /\ \E outcome \in {"ok", "EADDRINUSE", "EACCES"} :
        /\ bindCalls' = bindCalls + 1
        /\ bindFailed' = (bindFailed \/ outcome # "ok")
        /\ pc' = IF outcome = "ok" THEN "announce" ELSE AfterBindError.pc
        /\ exitStatus' = IF outcome = "ok" THEN exitStatus ELSE AfterBindError.exitStatus
        /\ stderr' = IF outcome = "ok" THEN stderr ELSE Append(stderr, "OSError: " \o outcome)
    /\ UNCHANGED <<stdout, types_map, backlog, nextId, active, accepted, closed,
                   interrupted, interruptedAt>>

\* lines 38-42
Announce ==
    /\ pc = "announce"
    /\ stdout' = stdout \o
          <<"Serving at http://localhost:" \o ToString(PORT),
            "Examples available at:",
            "  http://localhost:" \o ToString(PORT) \o "/examples/basic-usage-simple.html",
            "  http://localhost:" \o ToString(PORT) \o "/examples/basic-usage.html",
            "\nPress Ctrl+C to stop the server">>
    /\ pc' = "serving"
    /\ UNCHANGED <<exitStatus, stderr, bindCalls, bindFailed, types_map, backlog, nextId,
                   active, accepted, closed, interrupted, interruptedAt>>

\* A client connects and writes n requests on the connection.  An accepted
\* connection keeps the requests read so far (reqs) with the place each had
\* in what the client wrote (order).
Connect ==
    /\ Listening
    /\ nextId <= MaxConns
    /\ \E n \in 0..MaxReqs :
        backlog' = Append(backlog, [id |-> nextId, sent |-> n])
    /\ nextId' = nextId + 1
    /\ UNCHANGED <<pc, exitStatus, stdout, stderr, bindCalls, bindFailed, types_map,
                   active, accepted, closed, interrupted, interruptedAt>>

\* line 44, serve_forever: get_request, and the handler is constructed
Accept ==
    /\ AcceptReady
    /\ Listening
    /\ backlog # <<>>
    /\ LET c == Head(backlog) IN
        /\ active' = active \cup
              {[id |-> c.id, sent |-> c.sent, unread |-> c.sent, calls |-> 0,
                reqs |-> <<>>, order |-> <<>>, h |-> NewHandler]}
        /\ accepted' = Append(accepted, c.id)
    /\ backlog' = Tail(backlog)
    /\ pc' = "handling"
    /\ UNCHANGED <<exitStatus, stdout, stderr, bindCalls, bindFailed, types_map, nextId,
                   closed, interrupted, interruptedAt>>

\* handle(): handle_one_request, again while not close_connection.  A read at
\* the end of what the client wrote returns no request line.
HandleOneRequest ==
    /\ pc = "handling"
    /\ \E c \in active :
        /\ c.h.raised = ""
        /\ c.calls = 0 \/ ~c.h.close_connection
        /\ \E req \in Requests :
            active' = (active \ {c}) \cup
                {IF c.unread = 0
                 THEN [c EXCEPT !.calls = @ + 1, !.h.close_connection = TRUE]
                 ELSE [c EXCEPT !.calls = @ + 1,
                                !.unread = @ - 1,
                                !.reqs = Append(@, req),
                                !.order = Append(@, c.sent - c.unread + 1),
                                !.h = handle_one_request(c.h, req, types_map)]}
    /\ UNCHANGED <<pc, exitStatus, stdout, stderr, bindCalls, bindFailed, types_map,
                   backlog, nextId, accepted, closed, interrupted, interruptedAt>>

Outcome(c) ==
    IF c.h.raised # "" THEN "raised"
    ELSE IF c.h.wfile # <<>> THEN "responded"
    ELSE "silent"

\* line 44, serve_forever: the handler returned or raised; shutdown_request
ShutdownRequest ==
    /\ pc = "handling"
    /\ \E c \in active :
        /\ c.calls > 0
        /\ c.h.raised # "" \/ c.h.close_connection
        /\ active' = active \ {c}
        /\ closed' = Append(closed, [id |-> c.id, outcome |-> Outcome(c)])
        /\ stderr' = IF c.h.raised # "" THEN Append(stderr, "Traceback: " \o c.h.raised)
                     ELSE stderr
        /\ pc' = AfterRequest(c.h.raised).pc
        /\ exitStatus' = AfterRequest(c.h.raised).exitStatus
    /\ UNCHANGED <<stdout, bindCalls, bindFailed, types_map, backlog, nextId, accepted,
                   interrupted, interruptedAt>>

\* The interactive interrupt: KeyboardInterrupt is raised in the main thread
\* wherever it is.  Inside a handler it is no Exception: the request is shut
\* down and it propagates out of serve_forever.  The environment delivers
\* one interrupt in a run.
Interrupt ==
    /\ ~interrupted
    /\ pc \in {"start", "announce", "serving", "handling"}
    /\ interrupted' = TRUE
    /\ interruptedAt' = pc
    /\ pc' = InterruptLands(pc).pc
    /\ exitStatus' = InterruptLands(pc).exitStatus
    /\ stderr' = IF InterruptLands(pc).pc = "exited"
                 THEN Append(stderr, "KeyboardInterrupt") ELSE stderr
    /\ active' = {}
    /\ closed' = closed \o
          (IF active = {} THEN <<>>
           ELSE <<[id |-> (CHOOSE c \in active : TRUE).id, outcome |-> "interrupted"]>>)
    /\ UNCHANGED <<stdout, bindCalls, bindFailed, types_map, backlog, nextId, accepted>>

\* lines 45-47
Stop ==
    /\ pc = "caught"
    /\ stdout' = AfterInterrupt.stdout
    /\ exitStatus' = AfterInterrupt.exitStatus
    /\ pc' = "exited"
    /\ UNCHANGED <<stderr, bindCalls, bindFailed, types_map, backlog, nextId, active,
                   accepted, closed, interrupted, interruptedAt>>

Next ==
    \/ Bind
    \/ Announce
    \/ Connect
    \/ Accept
    \/ HandleOneRequest
    \/ ShutdownRequest
    \/ Interrupt
    \/ Stop

Spec == Init /\ [][Next]_vars

\* Once the except clause is entered the main thread runs on to sys.exit.
FairSpec == Spec /\ WF_vars(Stop)

---------------------------------------------------------------------------
(* Properties *)

\* The request a connection's handler has dealt with, and what it is about.
Handled(c) == c.reqs # <<>>
LastReq(c) == c.reqs[Len(c.reqs)]
\* A well-formed HTTP/1.x request line with the given method.
IsPlain(req, methods) ==
    /\ ~req.toolong
    /\ ~req.not_modified
    /\ Len(req.words) = 3
    /\ req.words[1] \in methods
    /\ req.words[3] \in {"HTTP/1.0", "HTTP/1.1"}
LocalPath(req) == translate_path(req.words[2])

\* How many lines of a header block are exactly `line`, up to its blank line.
RECURSIVE CountBeforeBlank(_, _)
CountBeforeBlank(lines, line) ==
    IF lines = <<>> \/ Head(lines) = "" THEN 0
    ELSE (IF Head(lines) = line THEN 1 ELSE 0) + CountBeforeBlank(Tail(lines), line)

CorsLines ==
    {"Access-Control-Allow-Origin: *",
     "Access-Control-Allow-Methods: GET, POST, OPTIONS",
     "Access-Control-Allow-Headers: Content-Type"}

\* The block ends with its one blank line, and holds each CORS header once
\* before it.
CorsOnce(lines) ==
    /\ lines # <<>>
    /\ lines[Len(lines)] = ""
    /\ \A l \in CorsLines : CountBeforeBlank(lines, l) = 1

\* C1 as stated: every response the server emits, whatever its status,
\* starts with a header block that holds each of the three CORS headers
\* exactly once before the blank line.
C1_EveryResponseHasCors ==
    \A c \in active :
        c.h.wfile # <<>> => (c.h.wfile[1].hdr /\ CorsOnce(c.h.wfile[1].lines))

\* C1 as amended: every header block the server writes holds each of the
\* three CORS headers exactly once before its blank line, and every response
\* to a request the handler did not take as HTTP/0.9 starts with such a
\* block; a response to a request taken as HTTP/0.9 (no version on the
\* request line, or a request line rejected before its version was
\* accepted) is a bare body with no header block.
C1_HeaderBlocksHaveCors ==
    \A c \in active :
        /\ \A i \in 1..Len(c.h.wfile) :
              c.h.wfile[i].hdr => CorsOnce(c.h.wfile[i].lines)
        /\ (c.h.wfile # <<>> /\ c.h.request_version # "HTTP/0.9")
              => c.h.wfile[1].hdr
        /\ (c.h.wfile # <<>> /\ c.h.request_version = "HTTP/0.9")
              => \A i \in 1..Len(c.h.wfile) : ~c.h.wfile[i].hdr

\* A 404 and a 301 went out with their header blocks.
C1_Witness ==
    \E c \in active :
        /\ c.h.wfile # <<>>
        /\ c.h.wfile[1].hdr
        /\ c.h.codes \in {<<404>>, <<301>>, <<501>>}

\* C2 as stated: whenever guess_type is called with a path ending in .js it
\* completes and gives the str application/javascript, whatever the
\* platform table holds.
C2_JsIsJavascript ==
    \A c \in active :
        \A i \in 1..Len(c.h.guessed) :
            EndsWith(c.h.guessed[i].path, ".js")
                => c.h.guessed[i].value = StrValue("application/javascript")

\* C3 as stated: a GET whose path is an existing regular file under the root
\* is answered with status 200 and the file's bytes as the body.
C3_FileServed ==
    \A c \in active :
        (Handled(c) /\ IsPlain(LastReq(c), {"GET"}) /\ IsFile(LocalPath(LastReq(c))))
            => /\ Len(c.h.wfile) = 2
               /\ c.h.wfile[1].hdr
               /\ c.h.wfile[1].lines[1] = "HTTP/1.0 200 OK"
               /\ c.h.wfile[2] = BodyWrite(FileBytes(LocalPath(LastReq(c))))

\* C4 as stated: whenever guess_type is called with a path not ending in .js
\* it gives what the inherited guess_type gives for that path, unchanged in
\* content and form.
C4_OtherTypesUnchanged ==
    \A c \in active :
        \A i \in 1..Len(c.h.guessed) :
            ~EndsWith(c.h.guessed[i].path, ".js")
                => c.h.guessed[i].value
                       = StrValue(BaseGuessType(c.h.guessed[i].path, types_map))

\* C5 as stated: a GET or HEAD whose path is no file and no directory under
\* the root is answered with status 404.
C5_MissingIs404 ==
    \A c \in active :
        (/\ Handled(c)
         /\ IsPlain(LastReq(c), {"GET", "HEAD"})
         /\ ~IsFile(LocalPath(LastReq(c)))
         /\ ~IsDir(LocalPath(LastReq(c))))
            => /\ c.h.codes = <<404>>
               /\ c.h.wfile # <<>>
               /\ c.h.wfile[1].hdr
               /\ StartsWith(c.h.wfile[1].lines[1], "HTTP/1.0 404 ")

\* C6: an error in the handling of a request never ends the process: while
\* no interrupt was delivered, a server that entered its loop is in it, not
\* exited, and between two connections it stands ready to accept.
C6_RequestErrorsKeepServing ==
    /\ (stdout # <<>> /\ ~interrupted) => (InLoop(pc) /\ exitStatus = <<>>)
    /\ (stdout # <<>> /\ ~interrupted /\ active = {}) => AcceptReady
    /\ pc = "exited" => (bindFailed \/ interrupted)

\* A request raised in its handler, another was refused, and the server is
\* back at accepting.
C6_Witness ==
    /\ ~interrupted
    /\ pc = "serving"
    /\ \E i \in 1..Len(closed) : closed[i].outcome = "raised"
    /\ \E i \in 1..Len(closed) : closed[i].outcome = "responded"

\* The stop notice is the last line printed.
NoticeLast == stdout # <<>> /\ stdout[Len(stdout)] = "\nServer stopped"

\* C7: the loop runs until interrupted; an interrupt arriving while the loop
\* runs leads to the stop notice and then exit status 0; status 0 is never
\* the exit status without an interrupt.
C7_InterruptStopsCleanly ==
    /\ []((stdout # <<>> /\ ~interrupted) => InLoop(pc))
    /\ [](exitStatus = <<0>> => (interrupted /\ NoticeLast /\ pc = "exited"))
    /\ []((pc = "exited" /\ interrupted /\ InLoop(interruptedAt))
             => (exitStatus = <<0>> /\ NoticeLast))
    /\ [](pc = "caught" => ~NoticeLast)
    /\ ((interrupted /\ InLoop(interruptedAt))
           ~> (pc = "exited" /\ exitStatus = <<0>> /\ NoticeLast))

\* The interrupt came while a request was being handled, and the process
\* has exited with status 0.
C7_Witness ==
    /\ pc = "exited"
    /\ exitStatus = <<0>>
    /\ interruptedAt = "handling"
    /\ NoticeLast

\* C8: when the bind fails the process has ended with a non-zero status and
\* a traceback, after a single bind, with nothing announced and no
\* connection ever accepted.
C8_BindFailureIsFatal ==
    bindFailed =>
        /\ pc = "exited"
        /\ exitStatus # <<>> /\ exitStatus[1] # 0
        /\ stderr # <<>>
        /\ bindCalls = 1
        /\ stdout = <<>>
        /\ accepted = <<>> /\ active = {} /\ closed = <<>>

C8_Witness == bindFailed /\ bindCalls = 1 /\ pc = "exited"

\* C9 as stated: a GET whose path is a directory under the root holding an
\* index.html is answered with status 200 and that file's bytes as the body.
C9_IndexServed ==
    \A c \in active :
        (/\ Handled(c)
         /\ IsPlain(LastReq(c), {"GET"})
         /\ EndsWith(LastReq(c).words[2], "/")
         /\ IsDir(LocalPath(LastReq(c)))
         /\ IsFile(LocalPath(LastReq(c)) \o "index.html"))
            => /\ Len(c.h.wfile) = 2
               /\ c.h.wfile[1].hdr
               /\ c.h.wfile[1].lines[1] = "HTTP/1.0 200 OK"
               /\ c.h.wfile[2] = BodyWrite(FileBytes(LocalPath(LastReq(c)) \o "index.html"))

\* C10: connections are handled one at a time: at most one is in its handler,
\* every connection accepted before it has been shut down, and the requests
\* read on a connection are read in the order the client wrote them.
C10_StrictlySerial ==
    /\ Cardinality(active) <= 1
    /\ Len(accepted) = Len(closed) + Cardinality(active)
    /\ \A i \in 1..Len(closed) : closed[i].id = accepted[i]
    /\ \A c \in active :
          /\ c.id = accepted[Len(accepted)]
          /\ \A k \in 1..Len(c.order) : c.order[k] = k
    /\ active # {} <=> pc = "handling"

\* A connection is in its handler after an earlier one was shut down, while
\* a third waits in the backlog.
C10_Witness ==
    /\ closed # <<>>
    /\ backlog # <<>>
    /\ \E c \in active : Handled(c) /\ c.unread > 0

====
